---------------------------- MODULE Spec2Model ----------------------------
(***************************************************************************)
(* State-machine model of src/backend/distributed/utils/enable_ssl.c:      *)
(* citus_setup_ssl, citus_reset_default_for_node_conninfo and the helpers  *)
(* that generate and store the self-signed certificate.                    *)
(*                                                                         *)
(* One backend runs one function at a time.  Every library call whose      *)
(* outcome the C code can observe is one step; its outcome (success or     *)
(* failure) is chosen nondeterministically.  Where the code ignores a      *)
(* return value the step still has both outcomes and the code goes on.     *)
(***************************************************************************)
EXTENDS Integers, Sequences, FiniteSets

VARIABLES
    USE_SSL,        \* build: compiled with ssl support (#ifdef USE_SSL)
    PG10,           \* build: PG_VERSION_NUM >= 100000
    EnableSSL,      \* the ssl setting as loaded in the running backend
    node_conninfo,  \* the sslmode value of citus.node_conninfo as loaded
    autoConf,       \* the stored configuration written by ALTER SYSTEM
    keyFile,        \* content of the file at ssl_key_file
    certFile,       \* content of the file at ssl_cert_file
    fn,             \* the function the backend runs, or ran last
    pc,             \* position of the backend in that function
    status,         \* how the last finished invocation ended
    msg,            \* last WARNING/ERROR message of the current invocation
    reloads,        \* reloads requested by the current invocation
    heap,           \* OpenSSL objects allocated by the current invocation
    callbacks,      \* reset callbacks registered on CurrentMemoryContext
    pkeyRsa,        \* the EVP_PKEY owns the RSA (after EVP_PKEY_assign_RSA)
    exponent,       \* local BIGNUM *exponent of GeneratePrivateKey
    rsa,            \* local RSA *rsa of GeneratePrivateKey: key it holds
    privateKey,     \* key held by the EVP_PKEY (NoKey: none)
    certificate,    \* the X509 under construction
    created,        \* return value of CreateCertificatesWhenNeeded
    keysGenerated   \* number of RSA keys generated so far

vars == <<USE_SSL, PG10, EnableSSL, node_conninfo, autoConf, keyFile, certFile,
          fn, pc, status, msg, reloads, heap, callbacks, pkeyRsa, exponent, rsa,
          privateKey, certificate, created, keysGenerated>>

(***************************************************************************)
(* Bounds                                                                  *)
(***************************************************************************)
\* RSA keys generated in one behaviour
MaxKeys == 2

(***************************************************************************)
(* C strings: sequences of character codes, NUL-terminated implicitly.     *)
(***************************************************************************)
Str_require     == <<114, 101, 113, 117, 105, 114, 101>>
Str_prefer      == <<112, 114, 101, 102, 101, 114>>
Str_disable     == <<100, 105, 115, 97, 98, 108, 101>>
Str_verify_full == <<118, 101, 114, 105, 102, 121, 45, 102, 117, 108, 108>>
Str_Require     == <<82, 101, 113, 117, 105, 114, 101>>
Str_required    == <<114, 101, 113, 117, 105, 114, 101, 100>>
Str_requir      == <<114, 101, 113, 117, 105, 114>>

\* the sslmode values a node may be running with
SslModes == {Str_require, Str_prefer, Str_disable, Str_verify_full,
             Str_Require, Str_required, Str_requir}

\* the character a C string holds at its head (0: the terminating NUL)
CharAt(s) == IF s = <<>> THEN 0 ELSE Head(s)

\* strcmp that stops at the end of its second argument (a strncmp slip)
RECURSIVE strcmp_prefix(_, _)
strcmp_prefix(a, b) ==
    IF CharAt(b) = 0 THEN 0
    ELSE IF CharAt(a) # CharAt(b) THEN CharAt(a) - CharAt(b)
    ELSE strcmp_prefix(Tail(a), Tail(b))

RECURSIVE strcmp(_, _)
strcmp(a, b) ==
    IF CharAt(a) # CharAt(b) THEN CharAt(a) - CharAt(b)
    ELSE IF CharAt(a) = 0 THEN 0
    ELSE strcmp(Tail(a), Tail(b))

\* the value of a keyword of the loaded citus.node_conninfo
GetConnParam(keyword) ==
    IF keyword = "sslmode" THEN node_conninfo ELSE <<>>

\* every sslmode but "disable" is taken to ask for ssl
ShouldUseAutoSSL_unless_disable ==
    LET sslmode == GetConnParam("sslmode")
    IN  IF strcmp(sslmode, Str_disable) = 0 THEN FALSE ELSE TRUE

ShouldUseAutoSSL ==
    LET sslmode == GetConnParam("sslmode")
    IN  IF strcmp(sslmode, Str_require) = 0 THEN TRUE ELSE FALSE


(***************************************************************************)
(* Keys, certificates and files                                            *)
(***************************************************************************)
\* NULL for a key
NoKey == 0

\* keys installed on the node before this code ever ran
PreexistingKeys == {-1, -2}

CITUS_AUTO_SSL_COMMON_NAME == "citus-auto-ssl"

\* a certificate just returned by X509_new: nothing is set
EmptyX509 ==
    [serial |-> 0, notBefore |-> FALSE, notAfter |-> FALSE, pubkey |-> NoKey,
     subject |-> "", issuer |-> "", signedBy |-> NoKey]

\* a complete certificate for key pub signed by key signer
InstalledX509(pub, signer) ==
    [serial |-> 1, notBefore |-> TRUE, notAfter |-> TRUE, pubkey |-> pub,
     subject |-> "installed", issuer |-> "installed", signedBy |-> signer]

\* the key file: missing, emptied by fopen(.., "wb"), or holding a key
AbsentKeyFile    == [kind |-> "absent", key |-> NoKey]
TruncatedKeyFile == [kind |-> "truncated", key |-> NoKey]

\* what PEM_write_PrivateKey leaves in the file
PemKey(k) == [kind |-> "pem", key |-> k]

\* the certificate file: missing, emptied by fopen(.., "wb"), holding
\* something that is no certificate, or holding a certificate
AbsentCertFile    == [kind |-> "absent", cert |-> EmptyX509]
TruncatedCertFile == [kind |-> "truncated", cert |-> EmptyX509]
GarbageCertFile   == [kind |-> "garbage", cert |-> EmptyX509]

\* what PEM_write_X509 leaves in the file
PemCert(c) == [kind |-> "pem", cert |-> c]

\* SSL_CTX_use_certificate_chain_file(sslContext, ssl_cert_file) == 1:
\* the file parses as a certificate (validity dates present) that carries
\* a public key
UseCertificateChainFile(f) ==
    /\ f.kind = "pem"
    /\ f.cert.notBefore
    /\ f.cert.notAfter
    /\ f.cert.pubkey # NoKey

(***************************************************************************)
(* OpenSSL objects and the memory context's reset callbacks                *)
(***************************************************************************)
Objects == {"SSL_CTX", "EVP_PKEY", "BIGNUM", "RSA", "X509"}

\* refs: reference count; frees: how often the object was destroyed
FreshHeap == [o \in Objects |-> [alloc |-> FALSE, refs |-> 0, frees |-> 0]]

Alloc(h, o) == [h EXCEPT ![o] = [alloc |-> TRUE, refs |-> 1, frees |-> 0]]

UpRef(h, o) == [h EXCEPT ![o].refs = @ + 1]

\* objects an object releases when it is destroyed itself
Owned(o, ownsRsa, holdsKey) ==
    IF o = "EVP_PKEY" /\ ownsRsa THEN <<"RSA">>
    ELSE IF o = "X509" /\ holdsKey THEN <<"EVP_PKEY">>
    ELSE <<>>

\* the *_free functions: drop one reference, destroy at zero (and release
\* what the object owns); "NULL" is a null pointer, freeing it does nothing
RECURSIVE Free(_, _, _, _)
Free(h, o, ownsRsa, holdsKey) ==
    IF o = "NULL" \/ ~h[o].alloc THEN h
    ELSE IF h[o].refs > 1 THEN [h EXCEPT ![o].refs = @ - 1]
    ELSE LET h1 == [h EXCEPT ![o].refs = 0, ![o].frees = @ + 1]
             owned == Owned(o, ownsRsa, holdsKey)
         IN  IF h[o].refs = 1 /\ owned # <<>>
             THEN Free(h1, owned[1], ownsRsa, holdsKey)
             ELSE h1

\* MemoryContextRegisterResetCallback puts the callback at the head of the
\* context's list, so the callbacks run last-registered first
RECURSIVE RunResetCallbacks(_, _, _, _)
RunResetCallbacks(cbs, h, ownsRsa, holdsKey) ==
    IF cbs = <<>> THEN h
    ELSE RunResetCallbacks(Tail(cbs), Free(h, Head(cbs), ownsRsa, holdsKey),
                           ownsRsa, holdsKey)

EnsureReleaseOpenSSLResource(cbs, arg) == <<arg>> \o cbs

(***************************************************************************)
(* Initial states: a node on which neither function has run yet.  The      *)
(* loaded settings are those of the stored configuration; a server that    *)
(* runs with ssl on was built with ssl support and started with an         *)
(* installed key and certificate.                                          *)
(***************************************************************************)
UnsetRsa == [state |-> "unset", key |-> NoKey]

Init ==
    /\ USE_SSL \in BOOLEAN
    /\ PG10 \in BOOLEAN
    /\ EnableSSL \in BOOLEAN
    /\ EnableSSL => USE_SSL
    /\ node_conninfo \in SslModes
    /\ autoConf = [ssl |-> EnableSSL, sslmode |-> node_conninfo]
    /\ keyFile \in {AbsentKeyFile, PemKey(-1)}
    /\ certFile \in {AbsentCertFile, GarbageCertFile, PemCert(InstalledX509(-1, -1)),
                     PemCert(InstalledX509(-2, -2))}
    /\ EnableSSL => /\ keyFile = PemKey(-1)
                    /\ certFile = PemCert(InstalledX509(-1, -1))
    /\ fn = "none"
    /\ pc = "idle"
    /\ status = "none"
    /\ msg = "none"
    /\ reloads = 0
    /\ heap = FreshHeap
    /\ callbacks = <<>>
    /\ pkeyRsa = FALSE
    /\ exponent = "unset"
    /\ rsa = UnsetRsa
    /\ privateKey = NoKey
    /\ certificate = EmptyX509
    /\ created = "unset"
    /\ keysGenerated = 0

build  == <<USE_SSL, PG10, fn>>
config == <<EnableSSL, node_conninfo, autoConf>>
files  == <<keyFile, certFile>>
locals == <<pkeyRsa, exponent, rsa, privateKey, certificate, created>>
mem    == <<heap, callbacks>>

\* a function is entered: nothing of the previous invocation is left
EnterFunction ==
    /\ pc = "idle"
    /\ status' = "running"
    /\ heap' = FreshHeap
    /\ callbacks' = <<>>
    /\ pkeyRsa' = FALSE
    /\ exponent' = "unset"
    /\ rsa' = UnsetRsa
    /\ privateKey' = NoKey
    /\ certificate' = EmptyX509
    /\ created' = "unset"

\* ereport(ERROR, ...): control leaves the function, the transaction aborts
Ereport(message) ==
    /\ pc' = "abort"
    /\ msg' = message

\* a null pointer is dereferenced inside the library: the backend dies on
\* the spot, or the call happens to come back reporting failure
NullDereference(message) ==
    \/ /\ pc' = "idle"
       /\ status' = "crash"
       /\ msg' = msg
    \/ /\ Ereport(message)
       /\ status' = status

\* ssl is taken for a setting that only changes at server start on every
\* version
ProcessConfigFile_ssl_at_start(conf) ==
    /\ EnableSSL' = EnableSSL
    /\ node_conninfo' = conf.sslmode

\* ProcessConfigFile(PGC_SIGHUP): the backend loads the stored settings;
\* before PostgreSQL 10 ssl can only change at server start
ProcessConfigFile(conf) ==
    /\ EnableSSL' = IF PG10 THEN conf.ssl ELSE EnableSSL
    /\ node_conninfo' = conf.sslmode

(***************************************************************************)
(* citus_setup_ssl                                                         *)
(***************************************************************************)
\* the condition with its two tests joined by "or"
SetupGuard_or == ~EnableSSL \/ ShouldUseAutoSSL

\* the condition of the if statement of citus_setup_ssl
SetupGuard == ~EnableSSL /\ ShouldUseAutoSSL

\* the function body compiled in although the build has no ssl support
citus_setup_ssl_no_ifdef ==
    /\ EnterFunction
    /\ fn' = "citus_setup_ssl"
    /\ reloads' = 0
    /\ msg' = "none"
    /\ pc' = IF SetupGuard THEN "AlterSystemSetConfigFile" ELSE "return"
    /\ UNCHANGED <<USE_SSL, PG10, config, files, keysGenerated>>

citus_setup_ssl ==
    /\ EnterFunction
    /\ fn' = "citus_setup_ssl"
    /\ reloads' = 0
    /\ IF ~USE_SSL
       THEN /\ msg' = "can not setup ssl on postgres that is not compiled with ssl support"
            /\ pc' = "return"
       ELSE /\ msg' = "none"
            /\ pc' = IF SetupGuard THEN "AlterSystemSetConfigFile" ELSE "return"
    /\ UNCHANGED <<USE_SSL, PG10, config, files, keysGenerated>>

\* the reload is requested right after ALTER SYSTEM, before the credentials
AlterSystemSetConfigFile_then_reload ==
    /\ pc = "AlterSystemSetConfigFile"
    /\ autoConf' = [autoConf EXCEPT !.ssl = TRUE]
    /\ reloads' = reloads + 1
    /\ ProcessConfigFile(autoConf')
    /\ pc' = "SSL_CTX_new"
    /\ UNCHANGED <<build, files, status, msg, mem, locals, keysGenerated>>

\* ALTER SYSTEM SET ssl TO on: written to the stored configuration at once
AlterSystemSetConfigFile ==
    /\ pc = "AlterSystemSetConfigFile"
    /\ autoConf' = [autoConf EXCEPT !.ssl = TRUE]
    /\ pc' = "SSL_CTX_new"
    /\ UNCHANGED <<build, EnableSSL, node_conninfo, files, status, msg, reloads,
                   mem, locals, keysGenerated>>

(***************************************************************************)
(* CreateCertificatesWhenNeeded                                            *)
(***************************************************************************)
SSL_CTX_new ==
    /\ pc = "SSL_CTX_new"
    /\ \/ /\ heap' = Alloc(heap, "SSL_CTX")
          /\ callbacks' = EnsureReleaseOpenSSLResource(callbacks, "SSL_CTX")
          /\ pc' = "SSL_CTX_use_certificate_chain_file"
          /\ UNCHANGED created
       \/ /\ created' = "false"
          /\ pc' = "reload"
          /\ UNCHANGED mem
    /\ UNCHANGED <<build, config, files, status, msg, reloads, pkeyRsa, exponent,
                   rsa, privateKey, certificate, keysGenerated>>

\* the result of loading the certificate is not looked at
SSL_CTX_use_certificate_chain_file_ignored ==
    /\ pc = "SSL_CTX_use_certificate_chain_file"
    /\ pc' = "EVP_PKEY_new"
    /\ UNCHANGED <<build, config, files, status, msg, reloads, mem, locals,
                   keysGenerated>>

SSL_CTX_use_certificate_chain_file ==
    /\ pc = "SSL_CTX_use_certificate_chain_file"
    /\ IF UseCertificateChainFile(certFile)
       THEN /\ created' = "false"
            /\ pc' = "reload"
       ELSE /\ pc' = "EVP_PKEY_new"
            /\ UNCHANGED created
    /\ UNCHANGED <<build, config, files, status, msg, reloads, mem, pkeyRsa,
                   exponent, rsa, privateKey, certificate, keysGenerated>>

(***************************************************************************)
(* GeneratePrivateKey                                                      *)
(***************************************************************************)
EVP_PKEY_new ==
    /\ pc = "EVP_PKEY_new"
    /\ \/ /\ heap' = Alloc(heap, "EVP_PKEY")
          /\ callbacks' = EnsureReleaseOpenSSLResource(callbacks, "EVP_PKEY")
          /\ pc' = "BN_new"
          /\ UNCHANGED msg
       \/ /\ Ereport("unable to allocate space for private key")
          /\ UNCHANGED mem
    /\ UNCHANGED <<build, config, files, status, reloads, locals, keysGenerated>>

\* the result of BN_new is registered without being tested
BN_new ==
    /\ pc = "BN_new"
    /\ \/ /\ heap' = Alloc(heap, "BIGNUM")
          /\ exponent' = "new"
          /\ callbacks' = EnsureReleaseOpenSSLResource(callbacks, "BIGNUM")
       \/ /\ exponent' = "NULL"
          /\ callbacks' = EnsureReleaseOpenSSLResource(callbacks, "NULL")
          /\ UNCHANGED heap
    /\ pc' = "BN_set_word"
    /\ UNCHANGED <<build, config, files, status, msg, reloads, pkeyRsa, rsa,
                   privateKey, certificate, created, keysGenerated>>

BN_set_word ==
    /\ pc = "BN_set_word"
    /\ IF exponent = "NULL"
       THEN /\ NullDereference("unable to prepare exponent for RSA algorithm")
            /\ UNCHANGED exponent
       ELSE \/ /\ exponent' = "RSA_F4"
               /\ pc' = "RSA_new"
               /\ UNCHANGED <<msg, status>>
            \/ /\ Ereport("unable to prepare exponent for RSA algorithm")
               /\ UNCHANGED <<exponent, status>>
    /\ UNCHANGED <<build, config, files, reloads, mem, pkeyRsa, rsa, privateKey,
                   certificate, created, keysGenerated>>

\* the RSA is registered for release like the other objects
RSA_new_registered ==
    /\ pc = "RSA_new"
    /\ \/ /\ heap' = Alloc(heap, "RSA")
          /\ rsa' = [state |-> "new", key |-> NoKey]
          /\ callbacks' = EnsureReleaseOpenSSLResource(callbacks, "RSA")
       \/ /\ rsa' = [state |-> "NULL", key |-> NoKey]
          /\ callbacks' = EnsureReleaseOpenSSLResource(callbacks, "NULL")
          /\ UNCHANGED heap
    /\ pc' = "RSA_generate_key_ex"
    /\ UNCHANGED <<build, config, files, status, msg, reloads, pkeyRsa,
                   exponent, privateKey, certificate, created, keysGenerated>>

\* the result of RSA_new is neither tested nor registered
RSA_new ==
    /\ pc = "RSA_new"
    /\ \/ /\ heap' = Alloc(heap, "RSA")
          /\ rsa' = [state |-> "new", key |-> NoKey]
       \/ /\ rsa' = [state |-> "NULL", key |-> NoKey]
          /\ UNCHANGED heap
    /\ pc' = "RSA_generate_key_ex"
    /\ UNCHANGED <<build, config, files, status, msg, reloads, callbacks, pkeyRsa,
                   exponent, privateKey, certificate, created, keysGenerated>>

RSA_generate_key_ex ==
    /\ pc = "RSA_generate_key_ex"
    /\ IF rsa.state = "NULL"
       THEN /\ NullDereference("unable to generate RSA key")
            /\ UNCHANGED <<rsa, keysGenerated>>
       ELSE \/ /\ keysGenerated < MaxKeys
               /\ keysGenerated' = keysGenerated + 1
               /\ rsa' = [state |-> "generated", key |-> keysGenerated + 1]
               /\ pc' = "EVP_PKEY_assign_RSA"
               /\ UNCHANGED <<msg, status>>
            \/ /\ Ereport("unable to generate RSA key")
               /\ UNCHANGED <<rsa, keysGenerated, status>>
    /\ UNCHANGED <<build, config, files, reloads, mem, pkeyRsa, exponent,
                   privateKey, certificate, created>>

EVP_PKEY_assign_RSA ==
    /\ pc = "EVP_PKEY_assign_RSA"
    /\ \/ /\ pkeyRsa' = TRUE
          /\ privateKey' = rsa.key
          /\ pc' = "X509_new"
          /\ UNCHANGED msg
       \/ /\ Ereport("unable to assign RSA key to use as private key")
          /\ UNCHANGED <<pkeyRsa, privateKey>>
    /\ UNCHANGED <<build, config, files, status, reloads, mem, exponent, rsa,
                   certificate, created, keysGenerated>>

(***************************************************************************)
(* CreateCertificate.  Only X509_new and X509_sign are tested by the code; *)
(* the setters in between return a status that is dropped.                 *)
(***************************************************************************)
certFrame == <<build, config, files, status, reloads, pkeyRsa, exponent, rsa,
               privateKey, created, keysGenerated>>

X509_new ==
    /\ pc = "X509_new"
    /\ \/ /\ heap' = Alloc(heap, "X509")
          /\ callbacks' = EnsureReleaseOpenSSLResource(callbacks, "X509")
          /\ pc' = "ASN1_INTEGER_set"
          /\ UNCHANGED msg
       \/ /\ Ereport("unable to allocate space for the x509 certificate")
          /\ UNCHANGED mem
    /\ UNCHANGED <<certFrame, certificate>>

ASN1_INTEGER_set ==
    /\ pc = "ASN1_INTEGER_set"
    /\ \/ certificate' = [certificate EXCEPT !.serial = 1]
       \/ UNCHANGED certificate
    /\ pc' = "X509_gmtime_adj_notBefore"
    /\ UNCHANGED <<certFrame, msg, mem>>

X509_gmtime_adj_notBefore ==
    /\ pc = "X509_gmtime_adj_notBefore"
    /\ \/ certificate' = [certificate EXCEPT !.notBefore = TRUE]
       \/ UNCHANGED certificate
    /\ pc' = "X509_gmtime_adj_notAfter"
    /\ UNCHANGED <<certFrame, msg, mem>>

X509_gmtime_adj_notAfter ==
    /\ pc = "X509_gmtime_adj_notAfter"
    /\ \/ certificate' = [certificate EXCEPT !.notAfter = TRUE]
       \/ UNCHANGED certificate
    /\ pc' = "X509_set_pubkey"
    /\ UNCHANGED <<certFrame, msg, mem>>

\* on success the certificate takes a reference of its own on the key
X509_set_pubkey ==
    /\ pc = "X509_set_pubkey"
    /\ \/ /\ certificate' = [certificate EXCEPT !.pubkey = privateKey]
          /\ heap' = UpRef(heap, "EVP_PKEY")
       \/ UNCHANGED <<certificate, heap>>
    /\ pc' = "X509_NAME_add_entry_by_txt"
    /\ UNCHANGED <<certFrame, msg, callbacks>>

X509_NAME_add_entry_by_txt ==
    /\ pc = "X509_NAME_add_entry_by_txt"
    /\ \/ certificate' = [certificate EXCEPT !.subject = CITUS_AUTO_SSL_COMMON_NAME]
       \/ UNCHANGED certificate
    /\ pc' = "X509_set_issuer_name"
    /\ UNCHANGED <<certFrame, msg, mem>>

X509_set_issuer_name ==
    /\ pc = "X509_set_issuer_name"
    /\ \/ certificate' = [certificate EXCEPT !.issuer = certificate.subject]
       \/ UNCHANGED certificate
    /\ pc' = "X509_sign"
    /\ UNCHANGED <<certFrame, msg, mem>>

\* X509_sign may fail whatever the certificate holds, and does fail on a
\* certificate that has no public key bound
X509_sign ==
    /\ pc = "X509_sign"
    /\ \/ /\ certificate.pubkey # NoKey
          /\ certificate' = [certificate EXCEPT !.signedBy = privateKey]
          /\ pc' = "fopen_privateKeyFile"
          /\ UNCHANGED msg
       \/ /\ Ereport("unable to create signature for the x509 certificate")
          /\ UNCHANGED certificate
    /\ UNCHANGED <<certFrame, mem>>

(***************************************************************************)
(* StoreCertificate                                                        *)
(***************************************************************************)
storeFrame == <<build, config, status, reloads, mem, pkeyRsa, exponent, rsa,
                privateKey, certificate, keysGenerated>>

\* a key file that already holds a key is kept instead of being rewritten
fopen_privateKeyFile_keep_existing ==
    /\ pc = "fopen_privateKeyFile"
    /\ \/ /\ keyFile.kind = "pem"
          /\ pc' = "fopen_certificateFile"
          /\ UNCHANGED <<msg, keyFile>>
       \/ /\ keyFile.kind # "pem"
          /\ keyFile' = TruncatedKeyFile
          /\ pc' = "PEM_write_PrivateKey"
          /\ UNCHANGED msg
       \/ /\ Ereport("unable to open private key file 'ssl_key_file' for writing")
          /\ UNCHANGED keyFile
    /\ UNCHANGED <<storeFrame, certFile, created>>

\* fopen(privateKeyFilename, "wb") truncates the file when it succeeds
fopen_privateKeyFile ==
    /\ pc = "fopen_privateKeyFile"
    /\ \/ /\ keyFile' = TruncatedKeyFile
          /\ pc' = "PEM_write_PrivateKey"
          /\ UNCHANGED msg
       \/ /\ Ereport("unable to open private key file 'ssl_key_file' for writing")
          /\ UNCHANGED keyFile
    /\ UNCHANGED <<storeFrame, certFile, created>>

\* the result of PEM_write_PrivateKey is not looked at
PEM_write_PrivateKey_unchecked ==
    /\ pc = "PEM_write_PrivateKey"
    /\ \/ keyFile' = PemKey(privateKey)
       \/ UNCHANGED keyFile
    /\ pc' = "fopen_certificateFile"
    /\ UNCHANGED <<storeFrame, certFile, created, msg>>

PEM_write_PrivateKey ==
    /\ pc = "PEM_write_PrivateKey"
    /\ \/ /\ keyFile' = PemKey(privateKey)
          /\ pc' = "fopen_certificateFile"
          /\ UNCHANGED msg
       \/ /\ Ereport("unable to store private key")
          /\ UNCHANGED keyFile
    /\ UNCHANGED <<storeFrame, certFile, created>>

\* the key file is removed again when the certificate file cannot be opened
fopen_certificateFile_rollback ==
    /\ pc = "fopen_certificateFile"
    /\ \/ /\ certFile' = TruncatedCertFile
          /\ pc' = "PEM_write_X509"
          /\ UNCHANGED <<msg, keyFile>>
       \/ /\ Ereport("unable to open certificate file 'ssl_cert_file' for writing")
          /\ keyFile' = AbsentKeyFile
          /\ UNCHANGED certFile
    /\ UNCHANGED <<storeFrame, created>>

fopen_certificateFile ==
    /\ pc = "fopen_certificateFile"
    /\ \/ /\ certFile' = TruncatedCertFile
          /\ pc' = "PEM_write_X509"
          /\ UNCHANGED msg
       \/ /\ Ereport("unable to open certificate file 'ssl_cert_file' for writing")
          /\ UNCHANGED certFile
    /\ UNCHANGED <<storeFrame, keyFile, created>>

\* a failed write makes StoreCertificate return false without a report of
\* its own, and the caller reports the failure
PEM_write_X509_returns_false ==
    /\ pc = "PEM_write_X509"
    /\ \/ /\ certFile' = PemCert(certificate)
          /\ created' = "true"
          /\ pc' = "reload"
          /\ UNCHANGED msg
       \/ /\ Ereport("error while storing key and certificate")
          /\ UNCHANGED <<certFile, created>>
    /\ UNCHANGED <<storeFrame, keyFile>>

\* on success StoreCertificate returns true and so does
\* CreateCertificatesWhenNeeded
PEM_write_X509 ==
    /\ pc = "PEM_write_X509"
    /\ \/ /\ certFile' = PemCert(certificate)
          /\ created' = "true"
          /\ pc' = "reload"
          /\ UNCHANGED msg
       \/ /\ Ereport("unable to store certificate")
          /\ UNCHANGED <<certFile, created>>
    /\ UNCHANGED <<storeFrame, keyFile>>

(***************************************************************************)
(* The end of citus_setup_ssl, and the end of every invocation             *)
(***************************************************************************)

\* the settings are loaded into the backend but pg_reload_conf is left out
ReloadConfiguration_local_only ==
    /\ pc = "reload"
    /\ IF PG10
       THEN /\ ProcessConfigFile(autoConf)
            /\ UNCHANGED <<msg, reloads>>
       ELSE /\ msg' = "restart of postgres required"
            /\ UNCHANGED <<reloads, EnableSSL, node_conninfo>>
    /\ pc' = "return"
    /\ UNCHANGED <<build, autoConf, files, status, mem, locals, keysGenerated>>

\* pg_reload_conf and ProcessConfigFile, or the restart warning
ReloadConfiguration ==
    /\ pc = "reload"
    /\ IF PG10
       THEN /\ reloads' = reloads + 1
            /\ ProcessConfigFile(autoConf)
            /\ UNCHANGED msg
       ELSE /\ msg' = "restart of postgres required"
            /\ UNCHANGED <<reloads, EnableSSL, node_conninfo>>
    /\ pc' = "return"
    /\ UNCHANGED <<build, autoConf, files, status, mem, locals, keysGenerated>>

\* the function has returned or raised: the memory context is reset and
\* calls the callbacks registered on it
MemoryContextReset ==
    /\ pc \in {"return", "abort"}
    /\ heap' = RunResetCallbacks(callbacks, heap, pkeyRsa,
                                 certificate.pubkey # NoKey)
    /\ callbacks' = <<>>
    /\ status' = IF pc = "return" THEN "ok" ELSE "error"
    /\ pc' = "idle"
    /\ UNCHANGED <<build, config, files, msg, reloads, locals, keysGenerated>>

(***************************************************************************)
(* citus_reset_default_for_node_conninfo                                   *)
(***************************************************************************)
\* the stored setting is changed but the configuration is not reloaded
citus_reset_default_for_node_conninfo_no_reload ==
    /\ EnterFunction
    /\ fn' = "citus_reset_default_for_node_conninfo"
    /\ autoConf' = [autoConf EXCEPT !.sslmode = Str_prefer]
    /\ reloads' = 0
    /\ msg' = "none"
    /\ pc' = "return"
    /\ UNCHANGED <<USE_SSL, PG10, EnableSSL, node_conninfo, files, keysGenerated>>

citus_reset_default_for_node_conninfo ==
    /\ EnterFunction
    /\ fn' = "citus_reset_default_for_node_conninfo"
    /\ autoConf' = [autoConf EXCEPT !.sslmode = Str_prefer]
    /\ ProcessConfigFile(autoConf')
    /\ reloads' = 1
    /\ msg' = "none"
    /\ pc' = "return"
    /\ UNCHANGED <<USE_SSL, PG10, files, keysGenerated>>

Next ==
    \/ citus_setup_ssl
    \/ AlterSystemSetConfigFile
    \/ SSL_CTX_new
    \/ SSL_CTX_use_certificate_chain_file
    \/ EVP_PKEY_new
    \/ BN_new
    \/ BN_set_word
    \/ RSA_new
    \/ RSA_generate_key_ex
    \/ EVP_PKEY_assign_RSA
    \/ X509_new
    \/ ASN1_INTEGER_set
    \/ X509_gmtime_adj_notBefore
    \/ X509_gmtime_adj_notAfter
    \/ X509_set_pubkey
    \/ X509_NAME_add_entry_by_txt
    \/ X509_set_issuer_name
    \/ X509_sign
    \/ fopen_privateKeyFile
    \/ PEM_write_PrivateKey
    \/ fopen_certificateFile
    \/ PEM_write_X509
    \/ ReloadConfiguration
    \/ MemoryContextReset
    \/ citus_reset_default_for_node_conninfo

Spec == Init /\ [][Next]_vars

(***************************************************************************)
(* Properties                                                              *)
(***************************************************************************)
Setup == "citus_setup_ssl"

\* a certificate file that holds a certificate signed by a generated key
SelfWritten(f) == f.kind = "pem" /\ f.cert.signedBy > NoKey

\* no setter of CreateCertificate failed on this certificate
AllFieldsSet(c) ==
    /\ c.serial = 1
    /\ c.notBefore
    /\ c.notAfter
    /\ c.pubkey # NoKey
    /\ c.subject = CITUS_AUTO_SSL_COMMON_NAME
    /\ c.issuer = CITUS_AUTO_SSL_COMMON_NAME

\* citus_setup_ssl has finished a run that took the auto-ssl branch, found
\* no loadable certificate and in which no step failed
BootstrapDone ==
    /\ fn = Setup
    /\ pc = "idle"
    /\ status = "ok"
    /\ created = "true"
    /\ AllFieldsSet(certificate)

\* the files hold the key generated last and a certificate built from and
\* signed by that key
MatchingPair ==
    /\ keyFile.kind = "pem"
    /\ keyFile.key = keysGenerated
    /\ keyFile.key > NoKey
    /\ certFile.kind = "pem"
    /\ certFile.cert.pubkey = keyFile.key
    /\ certFile.cert.signedBy = keyFile.key

\* C1 as stated: a bootstrap run with ssl off, sslmode "require", no
\* loadable certificate and no failing step ends with ssl on in the stored
\* configuration, with a key file and a certificate file built from and
\* signed by that key, and with the reload requested exactly once.
C1_Original ==
    BootstrapDone => /\ autoConf.ssl
                     /\ MatchingPair
                     /\ reloads = 1

\* C1 amended: as C1, but the reload is requested exactly once only on a
\* build for PostgreSQL 10 or later; on an older build no reload is
\* requested and the run ends with the "restart of postgres required"
\* warning instead.
C1_Amended ==
    BootstrapDone => /\ autoConf.ssl
                     /\ MatchingPair
                     /\ PG10 => reloads = 1
                     /\ ~PG10 => reloads = 0 /\ msg = "restart of postgres required"

C1_Witness ==
    /\ BootstrapDone
    /\ PG10
    /\ reloads = 1
    /\ MatchingPair
    /\ EnableSSL

\* C2 as stated: in every reachable state a key written to the key file by
\* this code is accompanied by a certificate file holding a certificate
\* signed by that exact key.
C2_Original ==
    (keyFile.kind = "pem" /\ keyFile.key > NoKey)
        => (certFile.kind = "pem" /\ certFile.cert.signedBy = keyFile.key)

\* C2 amended: the key may be in place without its certificate (between the
\* two writes, and for good when the certificate file could not be opened
\* or written); but whenever StoreCertificate has returned true, and
\* whenever the certificate file holds a loadable certificate written by
\* this code, the key file holds exactly the key that signed that
\* certificate.
C2_Amended ==
    /\ created = "true" => /\ keyFile.kind = "pem"
                           /\ keyFile.key > NoKey
                           /\ certFile.kind = "pem"
                           /\ certFile.cert.signedBy = keyFile.key
    /\ (SelfWritten(certFile) /\ UseCertificateChainFile(certFile))
        => keyFile = PemKey(certFile.cert.signedBy)

C2_Witness ==
    /\ pc = "idle"
    /\ created = "true"
    /\ keysGenerated = 2
    /\ keyFile = PemKey(2)
    /\ certFile.cert.signedBy = 2

\* C3: after every finished run, failed or not, every OpenSSL object the
\* run allocated has been released exactly once.
C3_Claim ==
    (pc = "idle" /\ status \in {"ok", "error"})
        => \A o \in Objects : heap[o].alloc => heap[o].frees = 1

\* C4: after a failed citus_setup_ssl the stored configuration does not
\* have ssl on while the key or the certificate is missing or incomplete.
C4_Claim ==
    (fn = Setup /\ pc = "idle" /\ status = "error" /\ autoConf.ssl)
        => (keyFile.kind = "pem" /\ UseCertificateChainFile(certFile))

\* C5: while the certificate file holds a loadable certificate no step
\* changes the key file or the certificate file or generates a key, and the
\* credential step that finds it returns "not created" at once.
C5_LoadableCertificateKept ==
    [][/\ UseCertificateChainFile(certFile)
          => UNCHANGED <<keyFile, certFile, keysGenerated>>
       /\ (pc = "SSL_CTX_use_certificate_chain_file"
           /\ UseCertificateChainFile(certFile))
          => (pc' = "reload" /\ created' = "false" /\ UNCHANGED heap)]_vars

C5_Witness ==
    /\ pc = "reload"
    /\ created = "false"
    /\ heap["SSL_CTX"].alloc
    /\ keyFile = AbsentKeyFile
    /\ UseCertificateChainFile(certFile)

\* C6: whenever CreateCertificatesWhenNeeded has returned (true or false)
\* a loadable certificate is in place at the certificate path.
C6_Claim ==
    (pc = "reload") => UseCertificateChainFile(certFile)

\* C7: citus_setup_ssl entered with ssl already on, or with an sslmode
\* other than "require", returns at once: the stored and the loaded
\* settings, both files and the key counter are unchanged, no OpenSSL
\* object is allocated and no reload is requested; and nothing of this
\* changes while the function returns.
C7_NoOp ==
    [][/\ (pc = "idle" /\ fn' = Setup
           /\ (EnableSSL \/ node_conninfo # Str_require))
          => /\ pc' = "return"
             /\ UNCHANGED <<config, files, keysGenerated>>
             /\ reloads' = 0
             /\ heap' = FreshHeap
             /\ callbacks' = <<>>
             /\ created' = "unset"
       /\ (pc = "return" /\ fn = Setup)
          => UNCHANGED <<config, files, keysGenerated, reloads, created>>]_vars

C7_Witness ==
    /\ fn = Setup
    /\ pc = "return"
    /\ USE_SSL
    /\ EnableSSL
    /\ node_conninfo = Str_require
    /\ created = "unset"
    /\ reloads = 0

\* C8: ShouldUseAutoSSL is true exactly when the loaded sslmode is the
\* string "require", so a citus_setup_ssl entered with ssl off takes the
\* auto-ssl branch exactly then; evaluating it changes no setting and no
\* file.
C8_ShouldUseAutoSSL ==
    [][/\ ShouldUseAutoSSL <=> (node_conninfo = Str_require)
       /\ (pc = "idle" /\ fn' = Setup /\ USE_SSL /\ ~EnableSSL)
          => /\ (pc' = "AlterSystemSetConfigFile")
                    <=> (node_conninfo = Str_require)
             /\ pc' \in {"AlterSystemSetConfigFile", "return"}
             /\ UNCHANGED <<config, files, keysGenerated>>]_vars

C8_Witness ==
    /\ fn = Setup
    /\ pc = "return"
    /\ USE_SSL
    /\ ~EnableSSL
    /\ node_conninfo = Str_required
    /\ created = "unset"
    /\ status = "running"

\* C9: once a call of CreateCertificatesWhenNeeded has returned true, the
\* certificate file it wrote loads, so that a later call never goes on to
\* generate a key while the file still holds what that call wrote.
C9_Claim ==
    /\ created = "true" => UseCertificateChainFile(certFile)
    /\ pc = "EVP_PKEY_new" => ~SelfWritten(certFile)

\* C10: the certificate file is opened only after the key was written to
\* the key file; when opening the certificate file fails the run fails
\* with that error and the key file keeps the key just written, also while
\* the run is torn down; when opening or writing the key file fails the
\* certificate file is neither opened nor changed.
C10_KeyBeforeCertificate ==
    [][/\ pc \in {"fopen_certificateFile", "PEM_write_X509"}
          => keyFile = PemKey(privateKey) /\ privateKey > NoKey
       /\ (pc = "fopen_certificateFile" /\ pc' = "abort")
          => /\ msg' = "unable to open certificate file 'ssl_cert_file' for writing"
             /\ keyFile' = PemKey(privateKey)
             /\ UNCHANGED certFile
       /\ pc \in {"fopen_privateKeyFile", "PEM_write_PrivateKey"}
          => /\ UNCHANGED certFile
             /\ pc' \in {"PEM_write_PrivateKey", "fopen_certificateFile", "abort"}
             /\ pc' = "fopen_certificateFile" => keyFile' = PemKey(privateKey)
       /\ pc = "abort"
          => /\ pc' = "idle"
             /\ status' = "error"
             /\ UNCHANGED <<keyFile, certFile>>]_vars

C10_Witness ==
    /\ pc = "idle"
    /\ status = "error"
    /\ msg = "unable to open certificate file 'ssl_cert_file' for writing"
    /\ keyFile = PemKey(privateKey)
    /\ privateKey > NoKey
    /\ ~UseCertificateChainFile(certFile)


\* C11: in CreateCertificate every step is a precondition for the next: a
\* step is reached only when every step before it took effect, and a
\* certificate this code wrote to the certificate file has its serial
\* number, both validity dates, the public key, the subject and the issuer
\* set.
C11_Claim ==
    /\ pc = "X509_gmtime_adj_notBefore" => certificate.serial = 1
    /\ pc = "X509_gmtime_adj_notAfter" => certificate.notBefore
    /\ pc = "X509_set_pubkey" => certificate.notAfter
    /\ pc = "X509_NAME_add_entry_by_txt" => certificate.pubkey # NoKey
    /\ pc = "X509_set_issuer_name"
          => certificate.subject = CITUS_AUTO_SSL_COMMON_NAME
    /\ pc = "X509_sign" => certificate.issuer = CITUS_AUTO_SSL_COMMON_NAME
    /\ SelfWritten(certFile) => AllFieldsSet(certFile.cert)


NoSslSupportWarning ==
    "can not setup ssl on postgres that is not compiled with ssl support"

\* C12: on a build without ssl support citus_setup_ssl, whatever the loaded
\* sslmode, only emits the warning and returns normally: the stored and the
\* loaded settings and both files are unchanged, no key is generated, no
\* OpenSSL object is allocated and no reload is requested.
C12_NoCryptoSupport ==
    [][/\ (pc = "idle" /\ fn' = Setup /\ ~USE_SSL)
          => /\ pc' = "return"
             /\ msg' = NoSslSupportWarning
             /\ UNCHANGED <<config, files, keysGenerated>>
             /\ reloads' = 0
             /\ heap' = FreshHeap
             /\ callbacks' = <<>>
             /\ created' = "unset"
       /\ (pc = "return" /\ fn = Setup /\ ~USE_SSL)
          => /\ pc' = "idle"
             /\ status' = "ok"
             /\ UNCHANGED <<config, files, keysGenerated, reloads, msg, heap,
                            created>>]_vars

C12_Witness ==
    /\ fn = Setup
    /\ pc = "idle"
    /\ status = "ok"
    /\ ~USE_SSL
    /\ ~EnableSSL
    /\ node_conninfo = Str_require
    /\ msg = NoSslSupportWarning
    /\ ~autoConf.ssl
    /\ reloads = 0
    /\ certFile = AbsentCertFile


Reset == "citus_reset_default_for_node_conninfo"

\* C13 as stated: citus_reset_default_for_node_conninfo sets sslmode to
\* "prefer" and requests a reload only when the node runs with ssl off (with
\* ssl on it changes no setting and requests no reload); it never changes
\* the ssl setting, stored or loaded, and leaves both files alone.
C13_Original ==
    [][(pc = "idle" /\ fn' = Reset)
          => /\ ~EnableSSL => /\ autoConf'.sslmode = Str_prefer
                              /\ node_conninfo' = Str_prefer
                              /\ reloads' = 1
             /\ EnableSSL => /\ UNCHANGED <<node_conninfo, autoConf>>
                             /\ reloads' = 0
             /\ EnableSSL' = EnableSSL
             /\ autoConf'.ssl = autoConf.ssl
             /\ UNCHANGED <<files, keysGenerated>>]_vars

\* C13 amended: citus_reset_default_for_node_conninfo tests nothing: with
\* ssl on or off it sets the stored sslmode to "prefer", requests the reload
\* once and loads the stored settings, so the loaded sslmode is "prefer";
\* the stored ssl setting is unchanged and the loaded one takes the stored
\* value (on a build for PostgreSQL 10 or later) or stays as it was; both
\* files are left alone, no OpenSSL object is allocated and no key is
\* generated, and the function returns normally.
C13_Amended ==
    [][/\ (pc = "idle" /\ fn' = Reset)
          => /\ autoConf' = [autoConf EXCEPT !.sslmode = Str_prefer]
             /\ node_conninfo' = Str_prefer
             /\ reloads' = 1
             /\ EnableSSL' = (IF PG10 THEN autoConf.ssl ELSE EnableSSL)
             /\ UNCHANGED <<files, keysGenerated>>
             /\ heap' = FreshHeap
             /\ callbacks' = <<>>
             /\ pc' = "return"
       /\ (pc = "return" /\ fn = Reset)
          => /\ pc' = "idle"
             /\ status' = "ok"
             /\ UNCHANGED <<config, files, keysGenerated, reloads, heap>>]_vars

C13_Witness ==
    /\ fn = Reset
    /\ pc = "idle"
    /\ status = "ok"
    /\ EnableSSL
    /\ autoConf = [ssl |-> TRUE, sslmode |-> Str_prefer]
    /\ node_conninfo = Str_prefer
    /\ reloads = 1
    /\ keyFile = PemKey(-1)


\* the key file holds a key this code generated and the certificate file
\* does not hold a certificate signed by it
OrphanedKey ==
    /\ keyFile.kind = "pem"
    /\ keyFile.key > NoKey
    /\ ~(certFile.kind = "pem" /\ certFile.cert.signedBy = keyFile.key)

CredentialSteps ==
    {"SSL_CTX_new", "SSL_CTX_use_certificate_chain_file", "EVP_PKEY_new",
     "BN_new", "BN_set_word", "RSA_new", "RSA_generate_key_ex",
     "EVP_PKEY_assign_RSA", "X509_new", "ASN1_INTEGER_set",
     "X509_gmtime_adj_notBefore", "X509_gmtime_adj_notAfter",
     "X509_set_pubkey", "X509_NAME_add_entry_by_txt", "X509_set_issuer_name",
     "X509_sign", "fopen_privateKeyFile", "PEM_write_PrivateKey",
     "fopen_certificateFile", "PEM_write_X509"}

\* what C15 says of the order in either form: the credential step starts
\* with ssl on in the stored configuration and does not touch the settings;
\* inside a running citus_setup_ssl a reload is requested, and the loaded
\* settings change, only in the step taken after the credential step has
\* returned; a run that raises has requested no reload and requests none
\* while it is torn down.
C15_Order ==
    /\ (pc = "AlterSystemSetConfigFile")
          => /\ pc' = "SSL_CTX_new"
             /\ autoConf'.ssl
             /\ reloads' = 0
             /\ UNCHANGED <<EnableSSL, node_conninfo, files>>
    /\ (pc \in CredentialSteps)
          => /\ autoConf.ssl
             /\ reloads = 0
             /\ created = "unset"
             /\ pc' \in CredentialSteps \cup {"reload", "abort", "idle"}
             /\ UNCHANGED <<config, reloads>>
    /\ (pc = "reload") => created \in {"true", "false"}
    /\ (pc = "abort")
          => /\ reloads = 0
             /\ pc' = "idle"
             /\ status' = "error"
             /\ UNCHANGED <<config, reloads>>
    /\ (fn = Setup /\ pc # "idle" /\ reloads' # reloads) => pc = "reload"

\* C15 as stated: in every citus_setup_ssl that takes the auto-ssl branch
\* the stored configuration is changed first, the credential step comes
\* second, and the step after the credential step has returned requests the
\* reload; no reload is requested earlier, and none when the credential
\* step raises.
C15_Original ==
    [][/\ C15_Order
       /\ (pc = "reload") => (reloads' = 1 /\ pc' = "return")]_vars

\* C15 amended: as C15, but the third effect is the reload only on a build
\* for PostgreSQL 10 or later; on an older build the "restart of postgres
\* required" warning stands in its place and no reload is requested.
C15_Amended ==
    [][/\ C15_Order
       /\ (pc = "reload")
          => /\ pc' = "return"
             /\ PG10 => reloads' = 1
             /\ ~PG10 => (reloads' = 0
                          /\ msg' = "restart of postgres required")]_vars

\* on a build that does reload, a run whose credential step raised after
\* the stored configuration was changed has ended without any reload
C15_Witness ==
    /\ fn = Setup
    /\ pc = "idle"
    /\ status = "error"
    /\ PG10
    /\ autoConf.ssl
    /\ ~EnableSSL
    /\ reloads = 0
    /\ msg = "unable to store certificate"


\* the last function to finish was a citus_setup_ssl that took the auto-ssl
\* branch and returned normally
BranchCompleted ==
    /\ fn = Setup
    /\ pc = "idle"
    /\ status = "ok"
    /\ created # "unset"

\* citus_setup_ssl is entered and goes straight to its return
NoOpEntry ==
    /\ pc' = "return"
    /\ UNCHANGED <<config, files, keysGenerated>>
    /\ reloads' = 0
    /\ heap' = FreshHeap
    /\ callbacks' = <<>>
    /\ created' = "unset"

\* C16 as stated: once a citus_setup_ssl that took the auto-ssl branch has
\* returned normally ssl is on in the running backend and stays on, and
\* every further citus_setup_ssl is a no-op: no change of the stored
\* configuration, no key or certificate generated or written, no reload.
C16_Original ==
    [][/\ BranchCompleted => EnableSSL
       /\ EnableSSL => EnableSSL'
       /\ (pc = "idle" /\ fn' = Setup /\ pc' # "idle"
           /\ (BranchCompleted \/ EnableSSL))
          => NoOpEntry
       /\ (pc = "return" /\ fn = Setup /\ created = "unset")
          => UNCHANGED <<config, files, keysGenerated, reloads, created>>]_vars

\* C16 amended: as C16 on a build for PostgreSQL 10 or later.  On an older
\* build nothing is reloaded: ssl is still off in the backend after the
\* run, and a further citus_setup_ssl with sslmode "require" takes the
\* auto-ssl branch again.
C16_Amended ==
    [][/\ (BranchCompleted /\ PG10) => EnableSSL
       /\ (BranchCompleted /\ ~PG10) => ~EnableSSL
       /\ EnableSSL => EnableSSL'
       /\ (pc = "idle" /\ fn' = Setup /\ pc' # "idle"
           /\ ((BranchCompleted /\ PG10) \/ EnableSSL))
          => NoOpEntry
       /\ (pc = "idle" /\ fn' = Setup /\ pc' # "idle"
           /\ BranchCompleted /\ ~PG10 /\ node_conninfo = Str_require)
          => pc' = "AlterSystemSetConfigFile"
       /\ (pc = "return" /\ fn = Setup /\ created = "unset")
          => UNCHANGED <<config, files, keysGenerated, reloads, created>>]_vars

\* a further citus_setup_ssl, entered after an earlier one generated and
\* stored the pair and reloaded, is on its way out having done nothing
C16_Witness ==
    /\ fn = Setup
    /\ pc = "return"
    /\ created = "unset"
    /\ reloads = 0
    /\ PG10
    /\ EnableSSL
    /\ node_conninfo = Str_require
    /\ keysGenerated = 1
    /\ MatchingPair


\* the messages of the ereport calls of CreateCertificatesWhenNeeded
CallerMessages ==
    {"error while generating private key", "error while generating certificate",
     "error while storing key and certificate"}

\* the messages of the four ereport calls of StoreCertificate
StoreMessages ==
    {"unable to open private key file 'ssl_key_file' for writing",
     "unable to store private key",
     "unable to open certificate file 'ssl_cert_file' for writing",
     "unable to store certificate"}

\* C17: each of the four steps of StoreCertificate either does its work and
\* leaves the message alone or raises the message of its own (the two open
\* failures with the path of the file) and leaves the files as they are;
\* the four messages differ, none is a message of
\* CreateCertificatesWhenNeeded, and the message is still the one raised
\* when the run has been torn down.
C17_DistinctStoreErrors ==
    [][/\ Cardinality(StoreMessages) = 4
       /\ StoreMessages \cap CallerMessages = {}
       /\ (pc = "fopen_privateKeyFile")
          => \/ /\ pc' = "PEM_write_PrivateKey"
                /\ keyFile' = TruncatedKeyFile
                /\ msg' = msg
             \/ /\ pc' = "abort"
                /\ msg' = "unable to open private key file 'ssl_key_file' for writing"
                /\ UNCHANGED <<keyFile, certFile>>
       /\ (pc = "PEM_write_PrivateKey")
          => \/ /\ pc' = "fopen_certificateFile"
                /\ keyFile' = PemKey(privateKey)
                /\ msg' = msg
             \/ /\ pc' = "abort"
                /\ msg' = "unable to store private key"
                /\ UNCHANGED <<keyFile, certFile>>
       /\ (pc = "fopen_certificateFile")
          => \/ /\ pc' = "PEM_write_X509"
                /\ certFile' = TruncatedCertFile
                /\ msg' = msg
             \/ /\ pc' = "abort"
                /\ msg' = "unable to open certificate file 'ssl_cert_file' for writing"
                /\ UNCHANGED <<keyFile, certFile>>
       /\ (pc = "PEM_write_X509")
          => \/ /\ pc' = "reload"
                /\ certFile' = PemCert(certificate)
                /\ msg' = msg
             \/ /\ pc' = "abort"
                /\ msg' = "unable to store certificate"
                /\ UNCHANGED <<keyFile, certFile>>
       /\ (pc = "abort")
          => /\ msg \notin CallerMessages
             /\ msg' = msg
             /\ status' = "error"]_vars

C17_Witness ==
    /\ fn = Setup
    /\ pc = "idle"
    /\ status = "error"
    /\ msg = "unable to store private key"
    /\ keyFile = TruncatedKeyFile
    /\ privateKey > NoKey


\* citus_setup_ssl has changed the node: it generated a key, or the stored
\* ssl setting is no longer the loaded one
SetupChangedNode == keysGenerated > 0 \/ autoConf.ssl # EnableSSL

\* what C18 says of a citus_setup_ssl that comes after the reset: with
\* sslmode "prefer" loaded it is a no-op, from its entry to its return, and
\* no operation of this file sets the sslmode back
C18_SetupAfterReset ==
    /\ (pc = "idle" /\ fn' = Reset) => node_conninfo' = Str_prefer
    /\ node_conninfo = Str_prefer => node_conninfo' = Str_prefer
    /\ (pc = "idle" /\ fn' = Setup /\ pc' # "idle" /\ node_conninfo = Str_prefer)
          => NoOpEntry
    /\ (pc = "return" /\ fn = Setup /\ created = "unset")
          => UNCHANGED <<config, files, keysGenerated, reloads, created>>

\* C18 as stated: after the reset every citus_setup_ssl is a no-op, and in
\* the other order too the two do not both change the node: a reset that
\* comes after citus_setup_ssl has changed the node changes no setting.
C18_Original ==
    [][/\ C18_SetupAfterReset
       /\ (pc = "idle" /\ fn' = Reset /\ SetupChangedNode)
          => UNCHANGED <<node_conninfo, autoConf>>]_vars

\* C18 amended: after the reset every citus_setup_ssl is a no-op.  In the
\* other order nothing holds the reset back: called after citus_setup_ssl
\* has changed the node it sets the stored and the loaded sslmode to
\* "prefer" and requests its reload all the same.
C18_Amended ==
    [][/\ C18_SetupAfterReset
       /\ (pc = "idle" /\ fn' = Reset /\ SetupChangedNode)
          => /\ autoConf' = [autoConf EXCEPT !.sslmode = Str_prefer]
             /\ node_conninfo' = Str_prefer
             /\ reloads' = 1]_vars

\* citus_setup_ssl stored ssl = on in a run with sslmode "require" that did
\* not reload, the reset then loaded "prefer", and the citus_setup_ssl that
\* runs now, ssl still off in the backend, is on its way out having done
\* nothing
C18_Witness ==
    /\ fn = Setup
    /\ pc = "return"
    /\ created = "unset"
    /\ USE_SSL
    /\ ~EnableSSL
    /\ autoConf = [ssl |-> TRUE, sslmode |-> Str_prefer]
    /\ node_conninfo = Str_prefer
    /\ reloads = 0


\* the objects GeneratePrivateKey, CreateCertificate and
\* CreateCertificatesWhenNeeded hand to EnsureReleaseOpenSSLResource
Registered == {"SSL_CTX", "EVP_PKEY", "BIGNUM", "X509"}

\* C19: no OpenSSL object is destroyed more than once, whichever way the
\* run ends: every object is on the list of reset callbacks at most once
\* and the RSA never is; the key has at most the two references of the
\* run and of the certificate; and after the teardown every registered
\* object the run allocated has been destroyed exactly once, the RSA
\* exactly once if the EVP_PKEY had taken it over and not at all otherwise.
C19_NoDoubleFree ==
    /\ \A o \in Objects : heap[o].frees <= 1
    /\ \A i, j \in DOMAIN callbacks :
          (i # j /\ callbacks[i] # "NULL") => callbacks[i] # callbacks[j]
    /\ \A i \in DOMAIN callbacks : callbacks[i] \in Registered \cup {"NULL"}
    /\ heap["EVP_PKEY"].refs <= 2
    /\ heap["EVP_PKEY"].refs = 2 => certificate.pubkey # NoKey
    /\ (pc = "idle" /\ status \in {"ok", "error"})
          => /\ \A o \in Registered : heap[o].alloc => heap[o].frees = 1
             /\ heap["RSA"].frees = (IF pkeyRsa THEN 1 ELSE 0)

\* a run that built and stored the pair has been torn down: the key was
\* bound into the certificate, and each of the five objects is gone once
C19_Witness ==
    /\ pc = "idle"
    /\ status = "ok"
    /\ created = "true"
    /\ pkeyRsa
    /\ certificate.pubkey # NoKey
    /\ \A o \in Objects : heap[o].alloc /\ heap[o].frees = 1 /\ heap[o].refs = 0

============================================================================
